---- MODULE Spec2Model ----
(***************************************************************************)
(* Model of the vulnerability ownership tools:                             *)
(*   ownership_engine.py    assign (plugin-id, family, keyword, default)   *)
(*   tools/rule_builder.py  tokenize, build_rules, make_routing_yaml,      *)
(*                          merge_existing, main                           *)
(*                                                                         *)
(* Python strings are sequences of one-character strings, so that str(),   *)
(* lower(), substring containment, isdigit(), int() and the lexicographic  *)
(* order are computed, not assumed.  Python values whose type matters      *)
(* (None / int / str / list / dict) are tagged records of one shape.       *)
(***************************************************************************)
EXTENDS Integers, Sequences, FiniteSets, TLC

VARIABLES
    pc,          \* position of the running function
    \* ownership_engine.assign
    finding,     \* the finding (a dict)
    rules,       \* the rule document (a dict)
    default,     \* local `default`
    pid_map,     \* local `pid_map`
    family_map,  \* local `family_map`
    kw_rules,    \* local `kw_rules`
    ki,          \* index of the keyword rule of the loop of line 95
    fi,          \* index of the field of the loop of line 97
    scores,      \* local `scores`
    matches,     \* local `matches`
    result,      \* the returned dict
    \* rule_builder.merge_existing
    existing,    \* parameter `existing`; its lists are appended to in place
    generated,   \* parameter `generated`
    existing0,   \* `existing` as it was passed
    out,         \* local `out`, the returned dict
    mk,          \* index of the rule class of the loop of line 158
    \* rule_builder.main and build_rules
    records,              \* the corpus
    min_keyword_support,  \* --min-keyword-support
    merge_arg,            \* whether --merge names an existing file
    now,                  \* the clock read by make_routing_yaml
    hashseed,             \* the process's string hash seed
    ri,                   \* index of the record of the loop of line 86
    plugin_id_map,        \* build_rules' `plugin_id_map`, in insertion order
    family_teams,         \* build_rules' `family_map`, in insertion order
    token_team,           \* build_rules' `token_team`, in insertion order
    plugin_id_rules,      \* build_rules' locals of the same names
    plugin_conflicts,
    family_rules,
    keyword_rules,
    built,                \* main's `generated`: what build_rules returned
    routing,              \* what make_routing_yaml returned
    written               \* the document main dumps

assignVars == <<finding, rules, default, pid_map, family_map, kw_rules, ki, fi,
                scores, matches, result>>
mergeVars == <<existing, generated, existing0, out, mk>>
buildVars == <<records, min_keyword_support, merge_arg, now, hashseed, ri,
               plugin_id_map, family_teams, token_team, plugin_id_rules,
               plugin_conflicts, family_rules, keyword_rules, built, routing, written>>

vars == <<pc, assignVars, mergeVars, buildVars>>

---------------------------------------------------------------------------
(* Characters and strings *)

\* the printable ASCII characters the model uses, in code-point order
Ascii == <<" ", "-", "0", "1", "2", "3", "4", "5", "6", "7", "8", "9",
           "A", "B", "D", "H", "S", "W",
           "a", "b", "c", "d", "e", "f", "g", "h", "i", "j", "k", "l", "m",
           "n", "o", "p", "q", "r", "s", "t", "u", "v", "w", "x", "y", "z">>

\* the rank of a character in code-point order (the order ord() gives)
Ord(c) == CHOOSE i \in 1..Len(Ascii) : Ascii[i] = c

\* str.lower() on one character
LowerChar(c) ==
    CASE c = "A" -> "a" [] c = "B" -> "b" [] c = "D" -> "d" [] c = "H" -> "h"
      [] c = "S" -> "s" [] c = "W" -> "w"
      [] OTHER -> c

\* str.lower()
Lower(s) == [i \in 1..Len(s) |-> LowerChar(s[i])]

\* `kw in text` on strings: substring containment
Contains(kw, text) ==
    \E i \in 1..(Len(text) - Len(kw) + 1) : SubSeq(text, i, i + Len(kw) - 1) = kw

\* a < b on Python strings: lexicographic by code point
StrLess(a, b) ==
    \E i \in 1..Len(b) :
        /\ i <= Len(a) + 1
        /\ \A j \in 1..(i - 1) : a[j] = b[j]
        /\ (i = Len(a) + 1 \/ Ord(a[i]) < Ord(b[i]))

---------------------------------------------------------------------------
(* Python values *)

None == [t |-> "none", n |-> 0, s |-> <<>>, l |-> <<>>, d |-> <<>>]
I(n) == [t |-> "int", n |-> n, s |-> <<>>, l |-> <<>>, d |-> <<>>]
S(s) == [t |-> "str", n |-> 0, s |-> s, l |-> <<>>, d |-> <<>>]
L(l) == [t |-> "list", n |-> 0, s |-> <<>>, l |-> l, d |-> <<>>]
D(d) == [t |-> "dict", n |-> 0, s |-> <<>>, l |-> <<>>, d |-> d]

\* bool(v)
Truthy(v) ==
    CASE v.t = "none" -> FALSE
      [] v.t = "int" -> v.n # 0
      [] v.t = "str" -> v.s # <<>>
      [] v.t = "list" -> v.l # <<>>
      [] v.t = "dict" -> DOMAIN v.d # {}

\* a or b
Or(a, b) == IF Truthy(a) THEN a ELSE b

\* dict.get(k)
Get(d, k) == IF k \in DOMAIN d THEN d[k] ELSE None

Digit == <<"0", "1", "2", "3", "4", "5", "6", "7", "8", "9">>

\* str(n) for n >= 0
RECURSIVE DecStr(_)
DecStr(n) == IF n < 10 THEN <<Digit[n + 1]>> ELSE DecStr(n \div 10) \o <<Digit[(n % 10) + 1]>>

\* str(v) for None, int and str (the repr of a list or a dict is not modelled:
\* no input puts one where str() is applied)
Str(v) ==
    CASE v.t = "none" -> <<"N", "o", "n", "e">>
      [] v.t = "int" -> DecStr(v.n)
      [] v.t = "str" -> v.s

\* " ".join(str(x) for x in l)
RECURSIVE JoinSpace(_)
JoinSpace(l) ==
    IF l = <<>> THEN <<>>
    ELSE IF Len(l) = 1 THEN Str(l[1])
    ELSE Str(l[1]) \o <<" ">> \o JoinSpace(Tail(l))

\* d[k] = v on a dict
Put(d, k, v) == [x \in DOMAIN d \cup {k} |-> IF x = k THEN v ELSE d[x]]

---------------------------------------------------------------------------
(* ownership_engine.py *)

\* _get_plugin_id: None, or S(str(pid))
get_plugin_id(f) ==
    LET plugin == Get(f, "plugin")
        nested == IF plugin.t = "dict" THEN Get(plugin.d, "id") ELSE None
        top == Or(Get(f, "plugin_id"), Get(f, "pluginId"))
    IN  IF nested.t # "none" THEN S(Str(nested))
        ELSE IF top.t # "none" THEN S(Str(top))
        ELSE None

\* _get_family
get_family(f) ==
    LET plugin == Get(f, "plugin")
    IN  IF plugin.t = "dict"
        THEN Or(Or(Get(plugin.d, "family"), Get(plugin.d, "plugin_family")), S(<<>>))
        ELSE Or(Or(Get(f, "plugin_family"), Get(f, "family")), S(<<>>))

\* the tail of _get_field_text (lines 59-61)
LeafText(cur) == IF cur.t = "list" THEN JoinSpace(cur.l) ELSE Str(Or(cur, S(<<>>)))

\* the else branch of _get_field_text's loop (lines 53-58)
MissingText(f, field) ==
    LET plug == Get(f, "plugin")
    IN  IF field = <<"plugin_name">> /\ plug.t = "dict"
        THEN Str(Or(Or(Get(plug.d, "name"), Get(plug.d, "plugin")), S(<<>>)))
        ELSE <<>>

\* the loop of _get_field_text over the remaining parts
RECURSIVE Walk(_, _, _, _)
Walk(f, field, cur, parts) ==
    IF parts = <<>> THEN LeafText(cur)
    ELSE IF cur.t = "dict" /\ Head(parts) \in DOMAIN cur.d
         THEN Walk(f, field, cur.d[Head(parts)], Tail(parts))
         ELSE MissingText(f, field)

\* _get_field_text; a field path is the sequence of its dot-separated parts
get_field_text(f, field) == Walk(f, field, D(f), field)

\* pid_map of line 69: later entries override earlier ones
RECURSIVE BuildPidMap(_)
BuildPidMap(items) ==
    IF items = <<>> THEN <<>>
    ELSE LET n == Len(items)
         IN  Put(BuildPidMap(SubSeq(items, 1, n - 1)), Str(items[n].plugin_id),
                 items[n].owner_team)

\* family_map of line 70
RECURSIVE BuildFamilyMap(_)
BuildFamilyMap(items) ==
    IF items = <<>> THEN <<>>
    ELSE LET n == Len(items)
         IN  Put(BuildFamilyMap(SubSeq(items, 1, n - 1)), items[n].family,
                 items[n].owner_team)

\* one entry of kw_rules (lines 75-80)
NormKw(k) ==
    [keyword |-> Lower(k.keyword), owner |-> k.owner_team, weight |-> k.weight,
     fields |-> IF k.fields = <<>> THEN << <<"plugin_name">> >> ELSE k.fields]

\* rules.get(key, []) for a rule list
RuleList(r, key) == IF key \in DOMAIN r THEN r[key] ELSE <<>>

\* a hit that replaces the owner's score where line 102 adds to it
AddScoreOverwrite(sc, owner, weight) == Put(sc, owner, weight)

\* scores[owner] = scores.get(owner, 0) + weight (line 102)
AddScore(sc, owner, weight) ==
    Put(sc, owner, (IF owner \in DOMAIN sc THEN sc[owner] ELSE 0) + weight)

\* key(x) <= key(y) for key = (score, owner), as Python compares tuples
KeyLeq(sc, x, y) == sc[x] < sc[y] \/ (sc[x] = sc[y] /\ (x = y \/ StrLess(x, y)))

\* max(scores.items(), key=lambda x: (x[1], x[0]))[0] (line 107)
BestOwner(sc) == CHOOSE o \in DOMAIN sc : \A p \in DOMAIN sc : KeyLeq(sc, p, o)

vm_triage == <<"v", "m", "-", "t", "r", "i", "a", "g", "e">>

NoReason == [kind |-> "", key |-> <<>>, matches |-> <<>>]
NoResult == [owner_team |-> <<>>, reason |-> NoReason]

\* lines 66-80
AssignBegin ==
    /\ pc = "start"
    /\ default' = (IF Truthy(Get(rules, "default_owner_team"))
                   THEN rules["default_owner_team"].s
                   ELSE vm_triage)
    /\ pid_map' = BuildPidMap(RuleList(rules, "plugin_id_rules"))
    /\ family_map' = BuildFamilyMap(RuleList(rules, "family_rules"))
    /\ kw_rules' = [i \in 1..Len(RuleList(rules, "keyword_rules")) |->
                        NormKw(RuleList(rules, "keyword_rules")[i])]
    /\ pc' = "pid"
    /\ UNCHANGED <<finding, rules, ki, fi, scores, matches, result>>
    /\ UNCHANGED <<mergeVars, buildVars>>

\* line 84
PidHit(f, m) ==
    LET pid == get_plugin_id(f)
    IN  Truthy(pid) /\ pid.s \in DOMAIN m /\ m[pid.s] # <<>>

\* lines 82-85
MatchPluginId ==
    /\ pc = "pid"
    /\ IF PidHit(finding, pid_map)
       THEN /\ result' = [owner_team |-> pid_map[get_plugin_id(finding).s],
                          reason |-> [kind |-> "plugin_id",
                                      key |-> get_plugin_id(finding).s,
                                      matches |-> <<>>]]
            /\ pc' = "done"
       ELSE /\ pc' = "family"
            /\ UNCHANGED result
    /\ UNCHANGED <<finding, rules, default, pid_map, family_map, kw_rules, ki, fi,
                   scores, matches>>
    /\ UNCHANGED <<mergeVars, buildVars>>

\* line 89
FamilyHit(f, m) ==
    LET fam == get_family(f)
    IN  Truthy(fam) /\ fam.s \in DOMAIN m /\ m[fam.s] # <<>>

\* lines 87-90
MatchFamily ==
    /\ pc = "family"
    /\ IF FamilyHit(finding, family_map)
       THEN /\ result' = [owner_team |-> family_map[get_family(finding).s],
                          reason |-> [kind |-> "family",
                                      key |-> get_family(finding).s,
                                      matches |-> <<>>]]
            /\ pc' = "done"
       ELSE /\ pc' = "keywords"
            /\ UNCHANGED result
    /\ UNCHANGED <<finding, rules, default, pid_map, family_map, kw_rules, ki, fi,
                   scores, matches>>
    /\ UNCHANGED <<mergeVars, buildVars>>

\* lines 98-101: the field's text is non-empty and contains the keyword
FieldHit(f, kr, field) ==
    LET text == Lower(get_field_text(f, field))
    IN  text # <<>> /\ Contains(kr.keyword, text)

\* one iteration of the inner loop (lines 97-103)
ScoreStep ==
    /\ pc = "keywords"
    /\ ki <= Len(kw_rules)
    /\ LET kr == kw_rules[ki]
       IN  /\ IF FieldHit(finding, kr, kr.fields[fi])
              THEN /\ scores' = AddScore(scores, kr.owner, kr.weight)
                   /\ matches' = Append(matches, <<kr.owner, kr.weight, kr.keyword>>)
              ELSE UNCHANGED <<scores, matches>>
           /\ IF fi < Len(kr.fields)
              THEN fi' = fi + 1 /\ ki' = ki
              ELSE fi' = 1 /\ ki' = ki + 1
    /\ UNCHANGED <<pc, finding, rules, default, pid_map, family_map, kw_rules, result>>
    /\ UNCHANGED <<mergeVars, buildVars>>

\* lines 105-111
Decide ==
    /\ pc = "keywords"
    /\ ki > Len(kw_rules)
    /\ result' = (IF DOMAIN scores # {}
                  THEN [owner_team |-> BestOwner(scores),
                        reason |-> [kind |-> "keywords", key |-> <<>>,
                                    matches |-> matches]]
                  ELSE [owner_team |-> default,
                        reason |-> [kind |-> "default", key |-> <<>>,
                                    matches |-> <<>>]])
    /\ pc' = "done"
    /\ UNCHANGED <<finding, rules, default, pid_map, family_map, kw_rules, ki, fi,
                   scores, matches>>
    /\ UNCHANGED <<mergeVars, buildVars>>

\* field paths, as the sequences of their dot-separated parts
f_plugin_name == <<"plugin_name">>
f_evidence_output == <<"evidence", "output">>

---------------------------------------------------------------------------
(* tools/rule_builder.py *)

\* str.strip(), for spaces
RECURSIVE LStrip(_)
LStrip(s) == IF s # <<>> /\ Head(s) = " " THEN LStrip(Tail(s)) ELSE s
RECURSIVE RStrip(_)
RStrip(s) == IF s # <<>> /\ s[Len(s)] = " " THEN RStrip(SubSeq(s, 1, Len(s) - 1)) ELSE s
Strip(s) == RStrip(LStrip(s))

\* a or b on strings
StrOr(a, b) == IF a # <<>> THEN a ELSE b

\* str.isdigit()
IsDigit(s) == s # <<>> /\ \A i \in 1..Len(s) : \E n \in 1..10 : Digit[n] = s[i]

\* int(s) for a string of digits
RECURSIVE ToInt(_)
ToInt(s) ==
    IF s = <<>> THEN 0
    ELSE 10 * ToInt(SubSeq(s, 1, Len(s) - 1))
         + (CHOOSE n \in 0..9 : Digit[n + 1] = s[Len(s)])

STOP_WORDS ==
    {<<"t", "h", "e">>, <<"a", "n", "d">>, <<"o", "r">>, <<"f", "o", "r">>,
     <<"w", "i", "t", "h">>, <<"f", "r", "o", "m">>, <<"o", "f">>, <<"t", "o">>,
     <<"i", "n">>, <<"o", "n">>, <<"a">>, <<"a", "n">>, <<"b", "y">>, <<"v">>}

\* a character of [a-z0-9]
IsAlnum(c) ==
    \/ (Ord(c) >= Ord("0") /\ Ord(c) <= Ord("9"))
    \/ (Ord(c) >= Ord("a") /\ Ord(c) <= Ord("z"))

\* re.split(r"[^a-z0-9]+", text), with cur the piece being read (an empty piece
\* between two adjacent separators is kept here; tokenize drops every empty piece)
RECURSIVE Split(_, _)
Split(text, cur) ==
    IF text = <<>> THEN <<cur>>
    ELSE IF IsAlnum(Head(text)) THEN Split(Tail(text), Append(cur, Head(text)))
    ELSE <<cur>> \o Split(Tail(text), <<>>)

KeepToken(t) == Len(t) >= 3 /\ t \notin STOP_WORDS

\* tokenize
tokenize(text) == SelectSeq(Split(Lower(text), <<>>), KeepToken)

\* the elements of a sequence
Range(s) == {s[i] : i \in 1..Len(s)}

\* defaultdict(list)[k].append(x) on a dict kept as the sequence of its items
\* [k, v] in insertion order
MapAppend(m, k, x) ==
    IF \E i \in 1..Len(m) : m[i].k = k
    THEN [i \in 1..Len(m) |-> IF m[i].k = k THEN [k |-> k, v |-> Append(m[i].v, x)] ELSE m[i]]
    ELSE Append(m, [k |-> k, v |-> <<x>>])

\* token_team[tok].append(team) for every token of a name (lines 97-98)
RECURSIVE AddTokens(_, _, _)
AddTokens(m, toks, team) ==
    IF toks = <<>> THEN m ELSE AddTokens(MapAppend(m, Head(toks), team), Tail(toks), team)

\* the sort key of line 103
PidKey(pid) == IF IsDigit(pid) THEN I(ToInt(pid)) ELSE S(pid)

\* a < b on sort keys of one type
KeyLess(a, b) == IF a.t = "int" THEN a.n < b.n ELSE StrLess(a.s, b.s)

\* sorted() compares an int with a str: TypeError
SortRaises(m) == \E i \in 1..Len(m), j \in 1..Len(m) : PidKey(m[i].k).t # PidKey(m[j].k).t

\* sorted(): a stable sort, as an insertion after the elements that are not greater
RECURSIVE Insert(_, _)
Insert(sorted, x) ==
    IF sorted = <<>> THEN <<x>>
    ELSE IF KeyLess(x.key, Head(sorted).key) THEN <<x>> \o sorted
    ELSE <<Head(sorted)>> \o Insert(Tail(sorted), x)
RECURSIVE Sorted(_)
Sorted(items) ==
    IF items = <<>> THEN <<>>
    ELSE Insert(Sorted(SubSeq(items, 1, Len(items) - 1)), items[Len(items)])

\* the items of a dict with the sort key of each
WithPidKey(m) == [i \in 1..Len(m) |-> [key |-> PidKey(m[i].k), k |-> m[i].k, v |-> m[i].v]]
WithStrKey(m) == [i \in 1..Len(m) |-> [key |-> S(m[i].k), k |-> m[i].k, v |-> m[i].v]]

\* [t for t in teams if t]
NonEmpty(teams) == SelectSeq(teams, LAMBDA t : t # <<>>)

\* Counter(teams)[t]
Count(teams, t) == Cardinality({i \in 1..Len(teams) : teams[i] = t})

\* dict(Counter(teams))
Histogram(teams) == [t \in Range(teams) |-> Count(teams, t)]

FirstIndex(teams, t) == CHOOSE i \in 1..Len(teams) : teams[i] = t /\ \A j \in 1..(i - 1) : teams[j] # t

\* Counter(teams).most_common(1)[0][0]: the first-seen team among the most frequent
MostCommon(teams) ==
    CHOOSE t \in Range(teams) :
        \A u \in Range(teams) :
            \/ Count(teams, u) < Count(teams, t)
            \/ Count(teams, u) = Count(teams, t) /\ FirstIndex(teams, t) <= FirstIndex(teams, u)

\* one plugin-id rule (lines 111-115)
PidRule(pid, teams) ==
    [id |-> <<"p", "i", "d", "-">> \o pid,
     plugin_id |-> IF IsDigit(pid) THEN I(ToInt(pid)) ELSE S(pid),
     owner_team |-> MostCommon(NonEmpty(teams))]

\* the loop of lines 103-115 over the sorted items
RECURSIVE PidRules(_)
PidRules(items) ==
    IF items = <<>> THEN <<>>
    ELSE IF NonEmpty(Head(items).v) = <<>> THEN PidRules(Tail(items))
    ELSE <<PidRule(Head(items).k, Head(items).v)>> \o PidRules(Tail(items))

\* the conflicts of the same loop (lines 109-110)
RECURSIVE PidConflicts(_)
PidConflicts(items) ==
    IF items = <<>> THEN <<>>
    ELSE LET teams == NonEmpty(Head(items).v)
         IN  IF teams # <<>> /\ Cardinality(Range(teams)) > 1
                /\ Count(teams, MostCommon(teams)) < Len(teams)
             THEN <<[plugin_id |-> Head(items).k, teams |-> Histogram(teams)]>>
                  \o PidConflicts(Tail(items))
             ELSE PidConflicts(Tail(items))

\* hash(s) of a str: fixed within a process, different between processes
RECURSIVE StrHash(_, _)
StrHash(s, seed) == IF s = <<>> THEN seed ELSE (31 * StrHash(Tail(s), seed) + Ord(Head(s))) % 1000003

\* the loop of lines 119-124
RECURSIVE FamilyRules(_, _)
FamilyRules(items, seed) ==
    IF items = <<>> THEN <<>>
    ELSE IF NonEmpty(Head(items).v) = <<>> THEN FamilyRules(Tail(items), seed)
    ELSE <<[id |-> <<"f", "a", "m", "-">> \o DecStr(StrHash(Head(items).k, seed) % 100000),
            family |-> Head(items).k,
            owner_team |-> MostCommon(NonEmpty(Head(items).v))]>>
         \o FamilyRules(Tail(items), seed)

\* f"{kw_id:04d}"
Pad4(n) == LET d == DecStr(n) IN [i \in 1..(4 - Len(d)) |-> "0"] \o d

\* the loop of lines 129-144, kw_id being the next identifier
RECURSIVE KeywordRules(_, _, _)
KeywordRules(items, support, kw_id) ==
    IF items = <<>> THEN <<>>
    ELSE LET teams == NonEmpty(Head(items).v)
             total == Len(teams)
         IN  IF total < support THEN KeywordRules(Tail(items), support, kw_id)
             ELSE IF 10 * Count(teams, MostCommon(teams)) >= 6 * total
             THEN <<[id |-> <<"k", "w", "-", "g", "e", "n", "-">> \o Pad4(kw_id),
                     keyword |-> Head(items).k,
                     owner_team |-> MostCommon(teams),
                     weight |-> 80,
                     fields |-> <<f_plugin_name>>]>>
                  \o KeywordRules(Tail(items), support, kw_id + 1)
             ELSE KeywordRules(Tail(items), support, kw_id)

\* one iteration of the loop of lines 86-98
BuildRecord ==
    /\ pc = "records"
    /\ ri <= Len(records)
    /\ LET r == records[ri]
           pid == Strip(r.plugin_id)
           team == Strip(r.known_owner_team)
           family == Strip(StrOr(r.plugin_family, r.family))
           name == Strip(StrOr(r.plugin_name, r.plugin))
       IN  /\ plugin_id_map' = (IF pid # <<>> THEN MapAppend(plugin_id_map, pid, team)
                                ELSE plugin_id_map)
           /\ family_teams' = (IF family # <<>> /\ team # <<>>
                               THEN MapAppend(family_teams, family, team)
                               ELSE family_teams)
           /\ token_team' = (IF name # <<>> /\ team # <<>>
                             THEN AddTokens(token_team, tokenize(name), team)
                             ELSE token_team)
    /\ ri' = ri + 1
    /\ UNCHANGED <<pc, records, min_keyword_support, merge_arg, now, hashseed,
                   plugin_id_rules, plugin_conflicts, family_rules, keyword_rules,
                   built, routing, written>>
    /\ UNCHANGED <<assignVars, mergeVars>>

\* lines 100-115; the TypeError of sorted() leaves build_rules and main
BuildPluginRules ==
    /\ pc = "records"
    /\ ri > Len(records)
    /\ IF SortRaises(plugin_id_map)
       THEN /\ pc' = "raised"
            /\ UNCHANGED <<plugin_id_rules, plugin_conflicts>>
       ELSE /\ plugin_id_rules' = PidRules(Sorted(WithPidKey(plugin_id_map)))
            /\ plugin_conflicts' = PidConflicts(Sorted(WithPidKey(plugin_id_map)))
            /\ pc' = "family_rules"
    /\ UNCHANGED <<records, min_keyword_support, merge_arg, now, hashseed, ri,
                   plugin_id_map, family_teams, token_team, family_rules,
                   keyword_rules, built, routing, written>>
    /\ UNCHANGED <<assignVars, mergeVars>>

\* lines 117-124
BuildFamilyRules ==
    /\ pc = "family_rules"
    /\ family_rules' = FamilyRules(Sorted(WithStrKey(family_teams)), hashseed)
    /\ pc' = "keyword_rules"
    /\ UNCHANGED <<records, min_keyword_support, merge_arg, now, hashseed, ri,
                   plugin_id_map, family_teams, token_team, plugin_id_rules,
                   plugin_conflicts, keyword_rules, built, routing, written>>
    /\ UNCHANGED <<assignVars, mergeVars>>

\* lines 126-152
BuildKeywordRules ==
    /\ pc = "keyword_rules"
    /\ keyword_rules' = KeywordRules(Sorted(WithStrKey(token_team)), min_keyword_support, 1)
    /\ built' = [plugin_id_rules |-> plugin_id_rules,
                 family_rules |-> family_rules,
                 keyword_rules |-> keyword_rules',
                 plugin_conflicts |-> plugin_conflicts]
    /\ pc' = "built"
    /\ UNCHANGED <<records, min_keyword_support, merge_arg, now, hashseed, ri,
                   plugin_id_map, family_teams, token_team, plugin_id_rules,
                   plugin_conflicts, family_rules, routing, written>>
    /\ UNCHANGED <<assignVars, mergeVars>>

\* make_routing_yaml, with rule_version None; the two strings are formatted from
\* the clock
make_routing_yaml(gen, clock, default_owner_team) ==
    [rule_version |-> <<"version", clock>>,
     generated_at |-> <<"iso", clock, "Z">>,
     plugin_id_rules |-> gen.plugin_id_rules,
     family_rules |-> gen.family_rules,
     keyword_rules |-> gen.keyword_rules,
     precedence |-> <<"database", "middleware", "OS", "network", "security", "default">>,
     default_owner_team |-> default_owner_team,
     notes |-> <<"Generated by tools/rule_builder.py">>]

RuleClasses == <<"plugin_id_rules", "family_rules", "keyword_rules">>

\* the key a rule class is merged on (lines 162-178)
MergeKey(class, item) ==
    CASE class = "plugin_id_rules" -> Str(item.plugin_id)
      [] class = "family_rules" -> item.family
      [] class = "keyword_rules" -> item.keyword

\* a merge in which a generated entry replaces the existing entry of its key
MergeListOverwrite(class, existing_list, gen_list) ==
    LET seen == {MergeKey(class, e) : e \in Range(existing_list)}
        NotSeen(item) == MergeKey(class, item) \notin seen
        Same(e) == {j \in 1..Len(gen_list) : MergeKey(class, gen_list[j]) = MergeKey(class, e)}
    IN  [i \in 1..Len(existing_list) |->
            IF Same(existing_list[i]) = {} THEN existing_list[i]
            ELSE gen_list[CHOOSE j \in Same(existing_list[i]) :
                              \A k \in Same(existing_list[i]) : k <= j]]
        \o SelectSeq(gen_list, NotSeen)

\* existing_list after the loop over gen_list (lines 162-181): `seen` holds the
\* keys of existing_list as it was before the loop
MergeList(class, existing_list, gen_list) ==
    LET seen == {MergeKey(class, e) : e \in Range(existing_list)}
        NotSeen(item) == MergeKey(class, item) \notin seen
    IN  existing_list \o SelectSeq(gen_list, NotSeen)

\* main, line 233 (--default-owner left at its default)
MakeRouting ==
    /\ pc = "built"
    /\ routing' = make_routing_yaml(built, now, vm_triage)
    /\ pc' = "routed"
    /\ UNCHANGED <<records, min_keyword_support, merge_arg, now, hashseed, ri,
                   plugin_id_map, family_teams, token_team, plugin_id_rules,
                   plugin_conflicts, family_rules, keyword_rules, built, written>>
    /\ UNCHANGED <<assignVars, mergeVars>>

\* main, lines 235-240: the call merge_existing(existing, routing)
MainMerge ==
    /\ pc = "routed"
    /\ merge_arg
    /\ generated' = routing
    /\ pc' = "merge"
    /\ UNCHANGED <<existing, existing0, out, mk>>
    /\ UNCHANGED <<assignVars, buildVars>>

\* merge_existing, line 157: out = dict(existing), a copy that shares the lists
MergeBegin ==
    /\ pc = "merge"
    /\ out' = existing
    /\ mk' = 1
    /\ pc' = "merge_class"
    /\ UNCHANGED <<existing, generated, existing0>>
    /\ UNCHANGED <<assignVars, buildVars>>

\* merge_existing, one iteration of the loop of lines 158-182; a list that
\* `existing` holds is the one appended to
MergeClass ==
    /\ pc = "merge_class"
    /\ mk <= Len(RuleClasses)
    /\ LET key == RuleClasses[mk]
           merged == MergeList(key, RuleList(out, key), RuleList(generated, key))
       IN  /\ out' = Put(out, key, merged)
           /\ existing' = (IF key \in DOMAIN existing THEN Put(existing, key, merged)
                           ELSE existing)
    /\ mk' = mk + 1
    /\ UNCHANGED <<pc, generated, existing0>>
    /\ UNCHANGED <<assignVars, buildVars>>

\* merge_existing, line 183
MergeReturn ==
    /\ pc = "merge_class"
    /\ mk > Len(RuleClasses)
    /\ pc' = "merged"
    /\ UNCHANGED mergeVars
    /\ UNCHANGED <<assignVars, buildVars>>

\* main, lines 242-245: the document dumped, merged or not
Write ==
    /\ \/ pc = "routed" /\ ~merge_arg /\ written' = routing
       \/ pc = "merged" /\ written' = out
    /\ pc' = "written"
    /\ UNCHANGED <<records, min_keyword_support, merge_arg, now, hashseed, ri,
                   plugin_id_map, family_teams, token_team, plugin_id_rules,
                   plugin_conflicts, family_rules, keyword_rules, built, routing>>
    /\ UNCHANGED <<assignVars, mergeVars>>

---------------------------------------------------------------------------
(* Inputs of assign *)

sa == <<"a">>
sb == <<"b">>
sab == <<"a", "b">>
sAb == <<"A", "b">>
sBa == <<"B", "a">>
s7 == <<"7">>
Web == <<"W", "e", "b">>
Db == <<"D", "b">>
dflt == <<"d", "f", "l", "t">>

MaxPidRules == 2
MaxFamilyRules == 2
MaxKwRules == 2

\* the sequences over X of length at most n
SeqsUpTo(X, n) == UNION {[1..k -> X] : k \in 0..n}

\* a key that is absent, or present with one of the values
Opt(k, vals) == {<<>>} \cup {k :> v : v \in vals}

OnePidRule == {<<>>, <<[plugin_id |-> I(7), owner_team |-> sa]>>}
OneFamilyRule == {<<[family |-> Web, owner_team |-> sb]>>}
OneKwRule == {<<[keyword |-> sa, owner_team |-> sab, weight |-> 80, fields |-> <<>>]>>}

RuleDocs(pids, fams, kws, dflts) ==
    {("plugin_id_rules" :> p) @@ ("family_rules" :> f) @@ ("keyword_rules" :> k) @@ d :
        p \in pids, f \in fams, k \in kws, d \in dflts}

\* the document names its default owner, or leaves it to the engine
AnyDefault == Opt("default_owner_team", {S(dflt)})
OwnDefault == {"default_owner_team" :> S(dflt)}
NoDefault == {<<>>}

\* findings and rules that exercise the plugin-id tier
IdFindings ==
    {p @@ t @@ u @@ n :
        p \in Opt("plugin", {D(i @@ f) : i \in Opt("id", {I(0), I(7), S(<<>>)}),
                                         f \in Opt("family", {S(Web)})}),
        t \in Opt("plugin_id", {I(0), S(s7)}),
        u \in Opt("pluginId", {I(7)}),
        n \in Opt("plugin_name", {S(sab)})}
IdRuleDocs ==
    RuleDocs(SeqsUpTo([plugin_id : {I(0), I(7)}, owner_team : {<<>>, sa, sb}], MaxPidRules),
             OneFamilyRule, OneKwRule, AnyDefault)

\* findings and rules that exercise the family tier
FamilyFindings ==
    {p @@ t @@ u @@ n :
        p \in Opt("plugin", {S(sa)} \cup
                   {D(f @@ g @@ i) : f \in Opt("family", {S(Web), S(<<>>)}),
                                     g \in Opt("plugin_family", {S(Db)}),
                                     i \in Opt("id", {I(7)})}),
        t \in Opt("plugin_family", {S(Web), S(<<>>)}),
        u \in Opt("family", {S(Db)}),
        n \in {"plugin_name" :> S(sab)}}
FamilyRuleDocs ==
    RuleDocs(OnePidRule,
             SeqsUpTo([family : {Web, Db}, owner_team : {<<>>, sa, sb}], MaxFamilyRules),
             OneKwRule, NoDefault)

\* findings and rules that exercise keyword scoring and the default
KwFindings ==
    {p @@ n @@ e :
        p \in Opt("plugin", {D("name" :> S(sBa)), D("plugin" :> S(sa))}),
        n \in Opt("plugin_name", {S(sAb), S(<<>>)}),
        e \in Opt("evidence", {D("output" :> L(<<S(sa), S(sb)>>))})}
KwRuleDocs ==
    RuleDocs({<<>>}, {<<>>},
             SeqsUpTo([keyword : {sa, <<"B">>}, owner_team : {sa, sb}, weight : {50, 80},
                       fields : {<<>>, <<f_plugin_name, f_evidence_output>>}]
                          \cup [keyword : {sa}, owner_team : {sa, sb}, weight : {0},
                                fields : {<<>>}],
                      MaxKwRules),
             OwnDefault)

\* the variables of a function that is not running
AssignIdle ==
    /\ finding = <<>> /\ rules = <<>> /\ default = <<>> /\ pid_map = <<>>
    /\ family_map = <<>> /\ kw_rules = <<>> /\ ki = 1 /\ fi = 1
    /\ scores = <<>> /\ matches = <<>> /\ result = NoResult
MergeIdle ==
    /\ existing = <<>> /\ generated = <<>> /\ existing0 = <<>> /\ out = <<>> /\ mk = 1
BuildIdle ==
    /\ records = <<>> /\ min_keyword_support = 2 /\ merge_arg = FALSE
    /\ now = 0 /\ hashseed = 0 /\ ri = 1
    /\ plugin_id_map = <<>> /\ family_teams = <<>> /\ token_team = <<>>
    /\ plugin_id_rules = <<>> /\ plugin_conflicts = <<>> /\ family_rules = <<>>
    /\ keyword_rules = <<>> /\ built = <<>> /\ routing = <<>> /\ written = <<>>

\* assign(finding, rules) is called
Init ==
    /\ pc = "start"
    /\ \/ finding \in IdFindings /\ rules \in IdRuleDocs
       \/ finding \in FamilyFindings /\ rules \in FamilyRuleDocs
       \/ finding \in KwFindings /\ rules \in KwRuleDocs
    /\ default = <<>>
    /\ pid_map = <<>>
    /\ family_map = <<>>
    /\ kw_rules = <<>>
    /\ ki = 1
    /\ fi = 1
    /\ scores = <<>>
    /\ matches = <<>>
    /\ result = NoResult
    /\ MergeIdle
    /\ BuildIdle

Next == AssignBegin \/ MatchPluginId \/ MatchFamily \/ ScoreStep \/ Decide

Spec == Init /\ [][Next]_vars

---------------------------------------------------------------------------
(* Inputs of merge_existing *)

MaxMergeRules == 2

sx == <<"x">>
sy == <<"y">>

MergePidEntries ==
    [id : {sx}, plugin_id : {I(7), S(s7), I(8)}, owner_team : {sa}]
        \cup {[id |-> sy, plugin_id |-> I(7), owner_team |-> sb]}
MergeFamilyEntries == [id : {sx}, family : {Web, Db}, owner_team : {sa, sb}]
MergeKwEntries ==
    [id : {sx}, keyword : {sa, sb}, owner_team : {sa, sb}, weight : {80},
     fields : {<<f_plugin_name>>}]

\* the lists of one rule class in <<existing, generated>>: every pair of lists over
\* the entries, the class being absent from existing or not
AllPairs(class, entries) ==
    {<<e, g>> : e \in {<<>>} \cup {class :> l : l \in SeqsUpTo(entries, MaxMergeRules)},
                g \in {class :> l : l \in SeqsUpTo(entries, MaxMergeRules)}}

\* a fixed pair with one shared and one new key
OnePair(class, x, y, z) == {<<class :> <<x>>, class :> <<y, z>>>>}

\* the class absent from both, or the fixed pair
FewPairs(one) == {<< <<>>, <<>> >>} \cup one

PidOne ==
    OnePair("plugin_id_rules",
             [id |-> sx, plugin_id |-> I(7), owner_team |-> sa],
             [id |-> sy, plugin_id |-> S(s7), owner_team |-> sb],
             [id |-> sy, plugin_id |-> I(8), owner_team |-> sb])
FamilyOne ==
    OnePair("family_rules",
             [id |-> sx, family |-> Web, owner_team |-> sa],
             [id |-> sy, family |-> Web, owner_team |-> sb],
             [id |-> sy, family |-> Db, owner_team |-> sb])
KwOne ==
    OnePair("keyword_rules",
             [id |-> sx, keyword |-> sa, owner_team |-> sa, weight |-> 50,
              fields |-> <<f_plugin_name>>],
             [id |-> sy, keyword |-> sa, owner_team |-> sb, weight |-> 80,
              fields |-> <<f_plugin_name>>],
             [id |-> sy, keyword |-> sb, owner_team |-> sb, weight |-> 80,
              fields |-> <<f_plugin_name>>])

MergeDocs(P, F, K, M) ==
    {<<p[1] @@ f[1] @@ k[1] @@ m, p[2] @@ f[2] @@ k[2]>> :
        p \in P, f \in F, k \in K, m \in M}

MergeInputs ==
    MergeDocs(AllPairs("plugin_id_rules", MergePidEntries), FewPairs(FamilyOne), KwOne,
              {<<>>})
        \cup MergeDocs(PidOne, AllPairs("family_rules", MergeFamilyEntries),
                       FewPairs(KwOne), {<<>>})
        \cup MergeDocs(FewPairs(PidOne), FamilyOne,
                       AllPairs("keyword_rules", MergeKwEntries), {<<>>})
        \cup MergeDocs(FewPairs(PidOne), FewPairs(FamilyOne), FewPairs(KwOne),
                       Opt("default_owner_team", {dflt}))

\* merge_existing(existing, generated) is called
InitMerge ==
    /\ pc = "merge"
    /\ \E io \in MergeInputs : existing = io[1] /\ generated = io[2] /\ existing0 = io[1]
    /\ out = <<>>
    /\ mk = 1
    /\ AssignIdle
    /\ BuildIdle

NextMerge == MergeBegin \/ MergeClass \/ MergeReturn

SpecMerge == InitMerge /\ [][NextMerge]_vars

---------------------------------------------------------------------------
(* Inputs of main *)

MaxRecords == 3
MaxClock == 1

s07 == <<"0", "7">>
nSSHv2 == <<"S", "S", "H", " ", "v", "2">>
nTheSshWeb == <<"t", "h", "e", " ", "s", "s", "h", "-", "w", "e", "b">>
nWeb == <<"w", "e", "b">>

Teams == {<<>>, sa, sb}

\* corpora that exercise each aggregation pass
PidRecords ==
    [plugin_id : {<<>>, s7, s07, sab}, known_owner_team : Teams, plugin_family : {<<>>},
     family : {<<>>}, plugin_name : {<<>>}, plugin : {<<>>}]
FamilyRecords ==
    [plugin_id : {s7}, known_owner_team : Teams, plugin_family : {<<>>, Web, Db},
     family : {<<>>, Db}, plugin_name : {<<>>}, plugin : {<<>>}]
NameRecords ==
    [plugin_id : {<<>>}, known_owner_team : Teams, plugin_family : {<<>>},
     family : {<<>>}, plugin_name : {<<>>, nSSHv2, nTheSshWeb}, plugin : {<<>>, nWeb}]

\* the document --merge names: empty, or one with a rule of each class
OldDoc ==
    [plugin_id_rules |-> <<[id |-> sx, plugin_id |-> S(s7), owner_team |-> sb]>>,
     family_rules |-> <<[id |-> sx, family |-> Web, owner_team |-> sb]>>,
     keyword_rules |-> <<[id |-> sx, keyword |-> <<"s", "s", "h">>, owner_team |-> sb,
                          weight |-> 50, fields |-> <<f_plugin_name>>]>>,
     default_owner_team |-> dflt]

\* main is called
InitBuild ==
    /\ pc = "records"
    /\ \/ records \in SeqsUpTo(PidRecords, MaxRecords)
          /\ min_keyword_support = 2 /\ hashseed = 0
       \/ records \in SeqsUpTo(FamilyRecords, MaxRecords)
          /\ min_keyword_support = 2 /\ hashseed \in {0, 1}
       \/ records \in SeqsUpTo(NameRecords, MaxRecords)
          /\ min_keyword_support \in {1, 2} /\ hashseed = 0
    /\ \/ merge_arg = FALSE /\ existing = <<>>
       \/ merge_arg = TRUE /\ existing \in {<<>>, OldDoc}
    /\ existing0 = existing
    /\ now \in 1..MaxClock
    /\ ri = 1
    /\ plugin_id_map = <<>> /\ family_teams = <<>> /\ token_team = <<>>
    /\ plugin_id_rules = <<>> /\ plugin_conflicts = <<>> /\ family_rules = <<>>
    /\ keyword_rules = <<>> /\ built = <<>> /\ routing = <<>> /\ written = <<>>
    /\ generated = <<>> /\ out = <<>> /\ mk = 1
    /\ AssignIdle

NextBuild ==
    \/ BuildRecord \/ BuildPluginRules \/ BuildFamilyRules \/ BuildKeywordRules
    \/ MakeRouting \/ MainMerge \/ MergeBegin \/ MergeClass \/ MergeReturn \/ Write

SpecBuild == InitBuild /\ [][NextBuild]_vars

---------------------------------------------------------------------------
(* What the specification says of assign, stated from the inputs alone *)

\* the largest element of a non-empty set of integers
MaxOf(X) == CHOOSE x \in X : \A y \in X : y <= x

\* the finding's plugin identifier as specified: nested plugin.id, else the
\* top-level plugin_id, else pluginId
SpecPluginId(f) ==
    LET plugin == Get(f, "plugin")
        nested == IF plugin.t = "dict" THEN Get(plugin.d, "id") ELSE None
    IN  IF nested.t # "none" THEN nested
        ELSE IF Get(f, "plugin_id").t # "none" THEN Get(f, "plugin_id")
        ELSE Get(f, "pluginId")

\* the indices of the plugin-id rules whose plugin_id, as a string, is key
PidEntries(r, key) ==
    {i \in 1..Len(RuleList(r, "plugin_id_rules")) :
        Str(RuleList(r, "plugin_id_rules")[i].plugin_id) = key}

\* the owner of the last plugin-id rule for key
PidOwner(r, key) == RuleList(r, "plugin_id_rules")[MaxOf(PidEntries(r, key))].owner_team

\* the finding's identifier is that of a rule whose lookup owner is non-empty
SpecPidMatch(f, r) ==
    /\ SpecPluginId(f).t # "none"
    /\ PidEntries(r, Str(SpecPluginId(f))) # {}
    /\ PidOwner(r, Str(SpecPluginId(f))) # <<>>

\* the finding's family as specified: nested plugin.family / plugin.plugin_family,
\* else top-level plugin_family / family
SpecFamily(f) ==
    LET plugin == Get(f, "plugin")
        nested == IF plugin.t = "dict"
                  THEN Or(Get(plugin.d, "family"), Get(plugin.d, "plugin_family"))
                  ELSE None
    IN  IF Truthy(nested) THEN nested
        ELSE Or(Or(Get(f, "plugin_family"), Get(f, "family")), S(<<>>))

FamilyEntries(r, fam) ==
    {i \in 1..Len(RuleList(r, "family_rules")) : RuleList(r, "family_rules")[i].family = fam}

FamilyOwner(r, fam) == RuleList(r, "family_rules")[MaxOf(FamilyEntries(r, fam))].owner_team

SpecFamilyMatch(f, r) ==
    /\ Truthy(SpecFamily(f))
    /\ FamilyEntries(r, SpecFamily(f).s) # {}
    /\ FamilyOwner(r, SpecFamily(f).s) # <<>>

\* the fields configured on keyword rule k
SpecFields(k) == IF k.fields = <<>> THEN <<f_plugin_name>> ELSE k.fields

\* the (rule, field) pairs whose resolved non-empty field text contains the rule's
\* keyword, case-insensitively
HitPairs(f, r) ==
    {<<i, j>> \in (1..Len(RuleList(r, "keyword_rules"))) \X (1..2) :
        /\ j <= Len(SpecFields(RuleList(r, "keyword_rules")[i]))
        /\ LET k == RuleList(r, "keyword_rules")[i]
               text == get_field_text(f, SpecFields(k)[j])
           IN  text # <<>> /\ Contains(Lower(k.keyword), Lower(text))}

RECURSIVE SumWeights(_, _)
SumWeights(r, pairs) ==
    IF pairs = {} THEN 0
    ELSE LET p == CHOOSE q \in pairs : TRUE
         IN  RuleList(r, "keyword_rules")[p[1]].weight + SumWeights(r, pairs \ {p})

\* the owners that have a hit, and the total weight of an owner's hits
HitOwners(f, r) == {RuleList(r, "keyword_rules")[p[1]].owner_team : p \in HitPairs(f, r)}
SpecScore(f, r, o) ==
    SumWeights(r, {p \in HitPairs(f, r) : RuleList(r, "keyword_rules")[p[1]].owner_team = o})

\* the owners with the highest total
TopOwners(f, r) ==
    {o \in HitOwners(f, r) : \A q \in HitOwners(f, r) : SpecScore(f, r, q) <= SpecScore(f, r, o)}

\* the trace entries of the hits, in rule-evaluation order
RECURSIVE HitTrace(_, _, _, _)
HitTrace(f, r, i, j) ==
    IF i > Len(RuleList(r, "keyword_rules")) THEN <<>>
    ELSE LET k == RuleList(r, "keyword_rules")[i]
             rest == IF j < Len(SpecFields(k)) THEN HitTrace(f, r, i, j + 1)
                     ELSE HitTrace(f, r, i + 1, 1)
         IN  IF <<i, j>> \in HitPairs(f, r)
             THEN <<<<k.owner_team, k.weight, Lower(k.keyword)>>>> \o rest
             ELSE rest

Returned(owner, kind, key, trace) ==
    result = [owner_team |-> owner, reason |-> [kind |-> kind, key |-> key, matches |-> trace]]

\* C1: a finding whose plugin identifier, as a string, is the plugin_id of a rule with
\* a non-empty lookup owner is assigned that owner with reason plugin_id:<id>,
\* whatever its family and whatever keyword rules hit.
C1_ExactIdPrecedence ==
    (pc = "done" /\ SpecPidMatch(finding, rules))
        => Returned(PidOwner(rules, Str(SpecPluginId(finding))), "plugin_id",
                    Str(SpecPluginId(finding)), <<>>)

\* C2: when keyword scoring decides and two or more owners share the highest total,
\* the lexicographically smallest of them is returned (stated for a positive total, so
\* that hits of weight 0 play no part).
C2_TieBreakSmallest ==
    (pc = "done" /\ result.reason.kind = "keywords"
                 /\ Cardinality(TopOwners(finding, rules)) >= 2
                 /\ \E o \in TopOwners(finding, rules) : SpecScore(finding, rules, o) > 0)
        => /\ result.owner_team \in TopOwners(finding, rules)
           /\ \A o \in TopOwners(finding, rules) :
                  o = result.owner_team \/ StrLess(result.owner_team, o)

\* C3: with no plugin-id match, a finding whose family (nested, else top-level) is in
\* family_rules with a non-empty owner is assigned that owner with reason
\* family:<family>, also when the plugin group carries no family and a top-level
\* family is present.
C3_FamilyPrecedence ==
    (pc = "done" /\ ~SpecPidMatch(finding, rules) /\ ~PidHit(finding, pid_map)
                 /\ SpecFamilyMatch(finding, rules))
        => Returned(FamilyOwner(rules, SpecFamily(finding).s), "family",
                    SpecFamily(finding).s, <<>>)

\* C4: with a non-empty default_owner_team, no plugin-id match, no family match and no
\* owner with a positive keyword score (hits of weight 0 included), the default owner
\* is returned with reason default.
C4_DefaultTier ==
    (pc = "done" /\ Truthy(Get(rules, "default_owner_team"))
                 /\ ~SpecPidMatch(finding, rules) /\ ~PidHit(finding, pid_map)
                 /\ ~SpecFamilyMatch(finding, rules) /\ ~FamilyHit(finding, family_map)
                 /\ \A o \in HitOwners(finding, rules) : SpecScore(finding, rules, o) <= 0)
        => Returned(rules["default_owner_team"].s, "default", <<>>, <<>>)

\* C8: when keyword scoring decides, each owner's score is the sum of the weights of
\* its hits over all rules and fields, no owner's total exceeds the returned owner's,
\* and the reason lists one entry per hit in rule-evaluation order.
C8_AdditiveScoring ==
    (pc = "done" /\ result.reason.kind = "keywords")
        => /\ DOMAIN scores = HitOwners(finding, rules)
           /\ \A o \in DOMAIN scores : scores[o] = SpecScore(finding, rules, o)
           /\ result.owner_team \in TopOwners(finding, rules)
           /\ result.reason.matches = HitTrace(finding, rules, 1, 1)

\* C8's case: an owner wins on the sum of two hits against another owner's larger
\* single hit
C8_Witness ==
    /\ pc = "done"
    /\ result.reason.kind = "keywords"
    /\ Cardinality(HitOwners(finding, rules)) = 2
    /\ \E p \in HitPairs(finding, rules), q \in HitPairs(finding, rules) :
          LET kr == RuleList(rules, "keyword_rules")
          IN  /\ p[1] # q[1]
              /\ kr[p[1]].owner_team = result.owner_team
              /\ kr[q[1]].owner_team # result.owner_team
              /\ kr[p[1]].weight < kr[q[1]].weight
    /\ Len(result.reason.matches) >= 3

---------------------------------------------------------------------------
(* What the specification says of merge_existing and of the rule builder *)

\* C5: in each rule class the merged list starts with the entries of existing,
\* unaltered and in their order, so none is dropped or overwritten and the class
\* does not shrink.
C5_MergeKeepsExisting ==
    pc = "merged"
        => \A c \in Range(RuleClasses) :
              LET old == RuleList(existing0, c)
              IN  /\ c \in DOMAIN out
                  /\ Len(out[c]) >= Len(old)
                  /\ SubSeq(out[c], 1, Len(old)) = old

\* C5's case: a generated entry disagrees with the existing entry of its key, and
\* another generated entry is appended
C5_Witness ==
    /\ pc = "merged"
    /\ \E c \in Range(RuleClasses) :
          /\ Len(RuleList(out, c)) > Len(RuleList(existing0, c))
          /\ \E e \in Range(RuleList(existing0, c)), g \in Range(RuleList(generated, c)) :
                MergeKey(c, e) = MergeKey(c, g) /\ e # g

\* no two entries of a list of the class have the same key
NoDuplicateKeys(c, list) ==
    \A i \in 1..Len(list), j \in 1..Len(list) :
        i # j => MergeKey(c, list[i]) # MergeKey(c, list[j])

\* C7: if a rule class of existing has no two entries with the same key, neither has
\* the merged class, also when generated carries a key more than once.
C7_MergeNoDuplicateKeys ==
    pc = "merged"
        => \A c \in Range(RuleClasses) :
              NoDuplicateKeys(c, RuleList(existing0, c)) => NoDuplicateKeys(c, RuleList(out, c))

\* two lists hold the same entries, each as often
SameEntries(a, b) ==
    \A x \in Range(a) \cup Range(b) :
        Cardinality({i \in 1..Len(a) : a[i] = x}) = Cardinality({i \in 1..Len(b) : b[i] = x})

\* two documents are equal up to the order of their rule lists
SameDocument(a, b) ==
    /\ DOMAIN a = DOMAIN b
    /\ \A k \in DOMAIN a :
          IF k \in Range(RuleClasses) THEN SameEntries(a[k], b[k]) ELSE a[k] = b[k]

\* C6: the document built and merged into an empty existing document equals, up to
\* ordering, the document built without merging: the same rule lists and the same
\* rule_version, generated_at, precedence, default_owner_team and notes.
C6_MergeIntoEmptyIsBuild ==
    (pc = "written" /\ merge_arg /\ DOMAIN existing0 = {})
        => SameDocument(written, routing)

\* the plugin ids of the corpus, and the team labels of one
CorpusPids == {Strip(records[i].plugin_id) : i \in 1..Len(records)} \ {<<>>}
LabelCount(pid, t) ==
    Cardinality({i \in 1..Len(records) :
                    Strip(records[i].plugin_id) = pid /\ Strip(records[i].known_owner_team) = t})
Labels(pid) ==
    {Strip(records[i].known_owner_team) : i \in 1..Len(records)} \ {<<>>}
LabelTeams(pid) == {t \in Labels(pid) : LabelCount(pid, t) > 0}

\* the rules and the conflicts emitted for a plugin id
RulesOf(pid) ==
    {i \in 1..Len(plugin_id_rules) : plugin_id_rules[i].id = <<"p", "i", "d", "-">> \o pid}
ConflictsOf(pid) ==
    {i \in 1..Len(plugin_conflicts) : plugin_conflicts[i].plugin_id = pid}

\* what plugin-id aggregation owes a plugin id
Aggregated(pid) ==
    IF LabelTeams(pid) = {}
    THEN RulesOf(pid) = {} /\ ConflictsOf(pid) = {}
    ELSE /\ Cardinality(RulesOf(pid)) = 1
         /\ \A i \in RulesOf(pid) :
               /\ plugin_id_rules[i].owner_team \in LabelTeams(pid)
               /\ \A t \in LabelTeams(pid) :
                     LabelCount(pid, t) <= LabelCount(pid, plugin_id_rules[i].owner_team)
         /\ IF Cardinality(LabelTeams(pid)) > 1
            THEN /\ Cardinality(ConflictsOf(pid)) = 1
                 /\ \A i \in ConflictsOf(pid) :
                       plugin_conflicts[i].teams = [t \in LabelTeams(pid) |-> LabelCount(pid, t)]
            ELSE ConflictsOf(pid) = {}

\* C9: once the plugin-id pass is over, every plugin id with a non-empty label has
\* exactly one rule, owned by a most frequent label, and a conflict entry with the
\* full histogram exactly when its labels disagree; an id without labels has neither.
C9_PluginIdAggregation == pc # "records" => \A pid \in CorpusPids : Aggregated(pid)

\* the same, for the corpora whose plugin ids sorted() can order
AggregationWhenSorted ==
    pc \notin {"records", "raised"} => \A pid \in CorpusPids : Aggregated(pid)

\* the rules are ordered by numeric value, or lexicographically
RulesOrdered ==
    \A i \in 1..Len(plugin_id_rules), j \in 1..Len(plugin_id_rules) :
        i < j => LET a == plugin_id_rules[i].plugin_id
                     b == plugin_id_rules[j].plugin_id
                 IN  /\ (a.t = "int" /\ b.t = "int") => a.n <= b.n
                     /\ (a.t = "str" /\ b.t = "str") => (a.s = b.s \/ StrLess(a.s, b.s))

\* C10: build_rules never raises, whatever mix of numeric and non-numeric plugin ids
\* the corpus holds, and emits the plugin-id rules in order.
C10_OrderingNeverAborts == pc # "raised" /\ RulesOrdered

---------------------------------------------------------------------------
(* What the code does where it departs from the specification *)

\* assign reads a top-level plugin_id only when it is truthy (0 and "" give way to
\* pluginId) and matches only a non-empty identifier: with the identifier taken that
\* way, exact-id precedence holds.
PidPrecedenceOfTruthyIds ==
    LET top == Or(Get(finding, "plugin_id"), Get(finding, "pluginId"))
        plugin == Get(finding, "plugin")
        nested == IF plugin.t = "dict" THEN Get(plugin.d, "id") ELSE None
        id == IF nested.t # "none" THEN nested ELSE top
    IN  (pc = "done" /\ id.t # "none" /\ Str(id) # <<>>
                     /\ PidEntries(rules, Str(id)) # {} /\ PidOwner(rules, Str(id)) # <<>>)
            => Returned(PidOwner(rules, Str(id)), "plugin_id", Str(id), <<>>)

\* among the owners that share the highest total, the lexicographically largest is
\* returned
TieBreakLargest ==
    (pc = "done" /\ result.reason.kind = "keywords")
        => /\ result.owner_team \in TopOwners(finding, rules)
           /\ \A o \in TopOwners(finding, rules) :
                  o = result.owner_team \/ StrLess(o, result.owner_team)

\* the top-level family is read only when the finding has no plugin group
FamilyPrecedenceWithoutPluginGroup ==
    LET fam == Or(Or(Get(finding, "plugin_family"), Get(finding, "family")), S(<<>>))
    IN  (pc = "done" /\ ~PidHit(finding, pid_map) /\ Get(finding, "plugin").t # "dict"
                     /\ Truthy(fam) /\ FamilyEntries(rules, fam.s) # {}
                     /\ FamilyOwner(rules, fam.s) # <<>>)
            => Returned(FamilyOwner(rules, fam.s), "family", fam.s, <<>>)

\* the default is returned exactly when no keyword rule hits at all
DefaultWhenNoHit ==
    (pc = "done" /\ ~PidHit(finding, pid_map) /\ ~FamilyHit(finding, family_map))
        => IF HitPairs(finding, rules) = {}
           THEN Returned(default, "default", <<>>, <<>>)
           ELSE result.reason.kind = "keywords"

\* merging into an empty document keeps the rule lists and nothing else
MergeIntoEmptyKeepsRuleLists ==
    (pc = "written" /\ merge_arg /\ DOMAIN existing0 = {})
        => /\ DOMAIN written = Range(RuleClasses)
           /\ \A c \in Range(RuleClasses) : written[c] = routing[c]

\* the merged class has no duplicate key when neither existing nor generated has
MergeNoDuplicateKeysOfDistinct ==
    pc = "merged"
        => \A c \in Range(RuleClasses) :
              (NoDuplicateKeys(c, RuleList(existing0, c))
                   /\ NoDuplicateKeys(c, RuleList(generated, c)))
                  => NoDuplicateKeys(c, RuleList(out, c))

\* build_rules raises exactly on a corpus that mixes numeric and other plugin ids
RaisesOnMixedIds ==
    pc # "records"
        => (pc = "raised" <=> \E p \in CorpusPids, q \in CorpusPids : IsDigit(p) /\ ~IsDigit(q))

\* when it does not raise, the plugin-id rules are in order
OrderedWhenSorted == pc # "raised" => RulesOrdered

====
